---- MODULE Spec2Model ----
(***************************************************************************)
(* Model of src/bot.py: UserInfoBot, a Telegram bot whose handlers         *)
(* classify one inbound update and issue calls on the transport            *)
(* (reply_text, edit_message_text, delete_message, answer).                *)
(*                                                                         *)
(* One update is handled at a time.  Every awaited transport call is a     *)
(* suspension point whose outcome is chosen by the transport: it returns   *)
(* (ok = TRUE) or raises (ok = FALSE).  The calls issued while handling    *)
(* the current update are recorded, in order, in `calls`.                  *)
(*                                                                         *)
(* Reply texts are kept as the sequence of their lines (the source joins   *)
(* them with "\n").  Emoji and box-drawing glyphs of the source are        *)
(* written as ASCII shortcodes (":no:", "|-", "|_").                       *)
(***************************************************************************)
EXTENDS Integers, Sequences, FiniteSets, TLC

VARIABLES update, pc, calls, branch, logged, outcome

vars == <<update, pc, calls, branch, logged, outcome>>

-----------------------------------------------------------------------------
(* Bounds of the input space *)

MaxUserId == 2
MaxChatId == 1

-----------------------------------------------------------------------------
(* Optional values: Python's None is the empty tuple, a present value v is *)
(* <<v>>.  Every present value drawn below is truthy (an object or a       *)
(* non-empty string), so Python truthiness is presence.                    *)

None == <<>>
Some(v) == <<v>>
Truthy(o) == o # None
Val(o) == o[1]

-----------------------------------------------------------------------------
(* Inputs supplied by the transport *)

Usernames == {None, Some("alice")}
Languages == {None, Some("en")}

\* the acting user of an update (update.effective_user, query.from_user)
Actors ==
  [id : 1..MaxUserId, username : Usernames, is_bot : {FALSE},
   language_code : Languages]

\* the user a message was forwarded from (msg.forward_from)
Users ==
  [id : 1..MaxUserId, username : Usernames, is_bot : BOOLEAN,
   language_code : Languages]

Chats == [id : 1..MaxChatId, username : Usernames]

CommandNames == {"start", "myid", "help"}

\* a message that is a registered slash-command
CommandMessages ==
  [command : CommandNames, forward_from : {None}, forward_from_chat : {None},
   forward_sender_name : {None}, forward_date : {None}]

\* a message that is not a command: every combination of the forward fields
PlainMessages ==
  [command : {""},
   forward_from : {None} \cup {Some(u) : u \in Users},
   forward_from_chat : {None} \cup {Some(c) : c \in Chats},
   forward_sender_name : {None, Some("Bob")},
   forward_date : {None, Some("2024-01-01")}]

Payloads ==
  {"myid", "help", "close", "refresh_myid", "other"}
    \cup {"refresh_user_" \o ToString(i) : i \in 1..MaxUserId}

Queries == [data : Payloads, from_user : Actors]

\* An update carries a message or a callback query, never both.
\* handle_message never reads the acting user: one actor stands for all
CommandUpdates ==
  [message : {Some(m) : m \in CommandMessages},
   callback_query : {None}, effective_user : Actors]

PlainUpdates ==
  [message : {Some(m) : m \in PlainMessages},
   callback_query : {None},
   effective_user : {CHOOSE a \in Actors : TRUE}]

MessageUpdates == CommandUpdates \cup PlainUpdates

CallbackUpdates ==
  {[message |-> None, callback_query |-> Some(q), effective_user |-> q.from_user] :
     q \in Queries}

Updates == MessageUpdates \cup CallbackUpdates

-----------------------------------------------------------------------------
(* Transport calls *)

Button(text, data) == [text |-> text, callback_data |-> data]

Call(api, text, parse_mode, reply_markup, ok) ==
  [api |-> api, text |-> text, parse_mode |-> parse_mode,
   reply_markup |-> reply_markup, ok |-> ok]

\* what one step of a handler does
Result(cs, nextpc, br, lg, out) ==
  [calls |-> cs, pc |-> nextpc, branch |-> br, logged |-> lg, outcome |-> out]

\* a handler that made its last call: it returns, or the call's exception
\* leaves the handler
Finish(call, br) ==
  Result(<<call>>, "idle", br, 0, IF call.ok THEN "returned" ELSE "raised")

OrNA(o) == IF Truthy(o) THEN Val(o) ELSE "N/A"


-----------------------------------------------------------------------------
(* UserInfoBot *)

\* the methods the class defines; self.<name> for any other name raises
\* AttributeError
Methods ==
  {"__init__", "start", "myid_command", "help_command", "handle_message",
   "show_user_info", "handle_button_press", "run"}

HasMethod(name) == name \in Methods

ErrorText == <<":warning: An error occurred while processing your message">>

PromptText == <<":info: Forward me a message to see info about the sender">>

HelpText ==
  <<":info: <b>Bot Help</b>", "",
    "<b>Commands:</b>",
    "/start - Welcome message",
    "/myid - Show your Telegram ID",
    "/help - This message", "",
    "<b>How to use:</b>",
    "1. Forward any message to see sender info",
    "2. Some info may be hidden due to privacy settings">>

\* start: one reply_text with the welcome text and two buttons
start(u, pcv, ok) ==
  Finish(Call("reply_text",
              <<":wave: Welcome to User Info Bot!", "",
                "I can show information about forwarded messages.", "",
                "Try these options:">>,
              "",
              << <<Button("Show My ID", "myid")>>, <<Button("Help", "help")>> >>,
              ok),
         "start")

\* myid_command: one reply_text with the acting user's id, handle, language
myid_command(u, pcv, ok) ==
  LET user == u.effective_user IN
  Finish(Call("reply_text",
              <<":id: <b>Your Telegram ID</b>",
                "|- ID: <code>" \o ToString(user.id) \o "</code>",
                "|- Username: @" \o OrNA(user.username),
                "|_ Language: " \o OrNA(user.language_code)>>,
              "HTML",
              << <<Button("Refresh", "refresh_myid")>> >>,
              ok),
         "myid")

\* help_command: replies through update.message; on an update that carries
\* no message (update.message is None) the attribute access raises before
\* any call is made
help_command(u, pcv, ok) ==
  IF u.message = None
    THEN Result(<<>>, "idle", "help", 0, "raised")
    ELSE Finish(Call("reply_text", HelpText, "HTML", <<>>, ok), "help")

\* show_user_info: one reply_text with the user block and two buttons
show_user_info(msg, user, ok) ==
  Call("reply_text",
       <<":bust: <b>User Information</b>",
         "|- ID: <code>" \o ToString(user.id) \o "</code>",
         "|- Username: @" \o OrNA(user.username),
         "|- Bot: " \o (IF user.is_bot THEN ":yes: Yes" ELSE ":no: No"),
         "|_ Language: " \o OrNA(user.language_code)>>,
       "HTML",
       << <<Button("Refresh", "refresh_user_" \o ToString(user.id))>>,
          <<Button("Close", "close")>> >>,
       ok)

HasAttr(msg, field) == field \in DOMAIN msg

\* the try block with its handler run as a finally clause: the error reply
\* follows the call whether or not it raised
Tried_finally(call, br) ==
  Result(<<call>>, "hm_except", br, 0, "running")

\* a call made inside the try block: it returns, or its exception is
\* caught by the except clause
Tried(call, br) ==
  Result(<<call>>, IF call.ok THEN "idle" ELSE "hm_except", br, 0,
         IF call.ok THEN "returned" ELSE "running")

\* if msg.forward_from: await self.show_user_info(msg, msg.forward_from)
user_branch(msg, ok) ==
  Tried(show_user_info(msg, Val(msg.forward_from), ok), "user")

\* elif msg.forward_from_chat: await self.show_chat_info(...); the class
\* defines no show_chat_info, so the attribute lookup raises inside the try
chat_branch(msg, ok) ==
  IF HasMethod("show_chat_info")
    THEN Tried(Call("reply_text", <<"show_chat_info">>, "", <<>>, ok), "chat")
    ELSE Result(<<>>, "hm_except", "chat", 0, "running")

\* elif msg.forward_sender_name: await self.show_private_forward(msg); the
\* class defines no show_private_forward either
private_branch(msg, ok) ==
  IF HasMethod("show_private_forward")
    THEN Tried(Call("reply_text", <<"show_private_forward">>, "", <<>>, ok),
               "private")
    ELSE Result(<<>>, "hm_except", "private", 0, "running")

\* elif not msg.forward_date: the prompt with its single button
prompt_branch(msg, ok) ==
  Tried(Call("reply_text", PromptText, "",
             << <<Button("What can I do?", "help")>> >>, ok),
        "prompt")

\* except Exception: logger.error, then the error reply, outside any try
except_clause(br, ok) ==
  Result(<<Call("reply_text", ErrorText, "", <<>>, ok)>>, "idle", br, 1,
         IF ok THEN "returned" ELSE "raised")

\* handle_message with the chat origin tested before the user origin
handle_message_chat_first(u, pcv, br, ok) ==
  LET msg == Val(u.message) IN
  IF pcv = "hm_try" THEN
    IF HasAttr(msg, "forward_from_chat") /\ Truthy(msg.forward_from_chat) THEN
      chat_branch(msg, ok)
    ELSE IF HasAttr(msg, "forward_from") /\ Truthy(msg.forward_from) THEN
      user_branch(msg, ok)
    ELSE IF HasAttr(msg, "forward_sender_name") /\ Truthy(msg.forward_sender_name) THEN
      private_branch(msg, ok)
    ELSE IF ~Truthy(msg.forward_date) THEN
      prompt_branch(msg, ok)
    ELSE Result(<<>>, "idle", "noop", 0, "returned")
  ELSE except_clause(br, ok)

\* handle_message whose last branch is a plain else: the prompt also
\* answers forwards that resolved to no origin
handle_message_prompt_any(u, pcv, br, ok) ==
  LET msg == Val(u.message) IN
  IF pcv = "hm_try" THEN
    IF HasAttr(msg, "forward_from") /\ Truthy(msg.forward_from) THEN
      user_branch(msg, ok)
    ELSE IF HasAttr(msg, "forward_from_chat") /\ Truthy(msg.forward_from_chat) THEN
      chat_branch(msg, ok)
    ELSE IF HasAttr(msg, "forward_sender_name") /\ Truthy(msg.forward_sender_name) THEN
      private_branch(msg, ok)
    ELSE prompt_branch(msg, ok)
  ELSE except_clause(br, ok)

\* handle_message: the try block (pcv = "hm_try"), then the except clause
\* (pcv = "hm_except"); br is the branch the try block took
handle_message(u, pcv, br, ok) ==
  LET msg == Val(u.message) IN
  IF pcv = "hm_try" THEN
    IF HasAttr(msg, "forward_from") /\ Truthy(msg.forward_from) THEN
      user_branch(msg, ok)
    ELSE IF HasAttr(msg, "forward_from_chat") /\ Truthy(msg.forward_from_chat) THEN
      chat_branch(msg, ok)
    ELSE IF HasAttr(msg, "forward_sender_name") /\ Truthy(msg.forward_sender_name) THEN
      private_branch(msg, ok)
    ELSE IF ~Truthy(msg.forward_date) THEN
      prompt_branch(msg, ok)
    ELSE Result(<<>>, "idle", "noop", 0, "returned")
  ELSE except_clause(br, ok)

\* await query.answer(): it returns, or its exception leaves the handler
answer_step(ok) ==
  Result(<<Call("answer", <<>>, "", <<>>, ok)>>,
         IF ok THEN "bp_branch" ELSE "idle", "none", 0,
         IF ok THEN "running" ELSE "raised")

\* query.data == "myid": edit the target message in place
myid_branch(query, ok) ==
  LET user == query.from_user IN
  Finish(Call("edit_message_text",
              <<":id: <b>Your ID</b>: <code>" \o ToString(user.id) \o "</code>",
                ":bust: <b>Username</b>: @" \o OrNA(user.username)>>,
              "HTML", <<>>, ok),
         "myid")

\* query.data == "close": delete the target message
close_branch(query, ok) ==
  Finish(Call("delete_message", <<>>, "", <<>>, ok), "close")

\* handle_button_press that answers only the payloads it matches
handle_button_press_ack_matched(u, pcv, ok) ==
  LET query == Val(u.callback_query) IN
  IF pcv = "bp_answer" THEN
    IF query.data \in {"myid", "help", "close"}
      THEN answer_step(ok)
      ELSE Result(<<>>, "idle", "unmatched", 0, "returned")
  ELSE IF query.data = "myid" THEN myid_branch(query, ok)
  ELSE IF query.data = "help" THEN help_command(u, pcv, ok)
  ELSE IF query.data = "close" THEN close_branch(query, ok)
  ELSE Result(<<>>, "idle", "unmatched", 0, "returned")

\* handle_button_press whose close branch edits the message instead of
\* deleting it
handle_button_press_close_edits(u, pcv, ok) ==
  LET query == Val(u.callback_query) IN
  IF pcv = "bp_answer" THEN answer_step(ok)
  ELSE IF query.data = "myid" THEN myid_branch(query, ok)
  ELSE IF query.data = "help" THEN help_command(u, pcv, ok)
  ELSE IF query.data = "close" THEN myid_branch(query, ok)
  ELSE Result(<<>>, "idle", "unmatched", 0, "returned")

\* handle_button_press: query.answer() first (pcv = "bp_answer"), then the
\* exact match on query.data (pcv = "bp_branch")
handle_button_press(u, pcv, ok) ==
  LET query == Val(u.callback_query) IN
  IF pcv = "bp_answer" THEN answer_step(ok)
  ELSE IF query.data = "myid" THEN myid_branch(query, ok)
  ELSE IF query.data = "help" THEN help_command(u, pcv, ok)
  ELSE IF query.data = "close" THEN close_branch(query, ok)
  ELSE Result(<<>>, "idle", "unmatched", 0, "returned")

-----------------------------------------------------------------------------
(* Dispatch: the handlers in registration order, first match wins *)

Handler(u) ==
  IF u.message # None /\ Val(u.message).command = "start" THEN "start"
  ELSE IF u.message # None /\ Val(u.message).command = "myid" THEN "myid_command"
  ELSE IF u.message # None /\ Val(u.message).command = "help" THEN "help_command"
  ELSE IF u.message # None THEN "hm_try"
  ELSE "bp_answer"

\* the update being handled (or handled last)
upd == Val(update)

Init ==
  /\ update = None
  /\ pc = "idle"
  /\ calls = <<>>
  /\ branch = "none"
  /\ logged = 0
  /\ outcome = "none"

\* the application hands the next update to its handler
Deliver ==
  /\ pc = "idle"
  /\ \E u \in Updates :
       /\ update' = Some(u)
       /\ pc' = Handler(u)
  /\ calls' = <<>>
  /\ branch' = "none"
  /\ logged' = 0
  /\ outcome' = "running"

\* one step of a handler, up to and including its next transport call
Apply(r) ==
  /\ calls' = calls \o r.calls
  /\ pc' = r.pc
  /\ branch' = r.branch
  /\ logged' = logged + r.logged
  /\ outcome' = r.outcome
  /\ UNCHANGED update

Start ==
  /\ pc = "start"
  /\ \E ok \in BOOLEAN : Apply(start(upd, pc, ok))

MyIdCommand ==
  /\ pc = "myid_command"
  /\ \E ok \in BOOLEAN : Apply(myid_command(upd, pc, ok))

HelpCommand ==
  /\ pc = "help_command"
  /\ \E ok \in BOOLEAN : Apply(help_command(upd, pc, ok))

HandleMessage ==
  /\ pc \in {"hm_try", "hm_except"}
  /\ \E ok \in BOOLEAN : Apply(handle_message(upd, pc, branch, ok))

HandleButtonPress ==
  /\ pc \in {"bp_answer", "bp_branch"}
  /\ \E ok \in BOOLEAN : Apply(handle_button_press(upd, pc, ok))

Next ==
  \/ Deliver
  \/ Start
  \/ MyIdCommand
  \/ HelpCommand
  \/ HandleMessage
  \/ HandleButtonPress

Spec == Init /\ [][Next]_vars

-----------------------------------------------------------------------------
(* Properties *)

IsCommand == update # None /\ upd.message # None /\ Val(upd.message).command # ""
IsPlain == update # None /\ upd.message # None /\ Val(upd.message).command = ""
IsButton == update # None /\ upd.callback_query # None

Finished == pc = "idle" /\ outcome \in {"returned", "raised"}

\* the outbound actions issued for the current update: every call but the
\* callback acknowledgement
Outbound == {i \in 1..Len(calls) : calls[i].api # "answer"}

Completed == {i \in Outbound : calls[i].ok}

UserOrigin == IsPlain /\ Val(upd.message).forward_from # None

ChatOrigin ==
  /\ IsPlain
  /\ Val(upd.message).forward_from = None
  /\ Val(upd.message).forward_from_chat # None

AnonymousOrigin ==
  /\ IsPlain
  /\ Val(upd.message).forward_from = None
  /\ Val(upd.message).forward_from_chat = None
  /\ Val(upd.message).forward_sender_name # None

UnresolvedForward ==
  /\ IsPlain
  /\ Val(upd.message).forward_from = None
  /\ Val(upd.message).forward_from_chat = None
  /\ Val(upd.message).forward_sender_name = None
  /\ Val(upd.message).forward_date # None

NoForwardMetadata ==
  /\ IsPlain
  /\ Val(upd.message).forward_from = None
  /\ Val(upd.message).forward_from_chat = None
  /\ Val(upd.message).forward_sender_name = None
  /\ Val(upd.message).forward_date = None

\* C1: a plain message whose forward_from user is set is classified as a
\* user forward whatever its other forward fields hold: the first call
\* handle_message issues is the user-info reply (id, handle or N/A, bot
\* yes/no glyph, language or N/A) with exactly the buttons Refresh
\* (refresh_user_<id>) and Close (close); it is never classified as chat,
\* anonymous, prompt or no-op, and the only call that can follow is the
\* generic error reply after the user-info send raised.
C1_UserOriginFirstMatch ==
  (UserOrigin /\ pc # "hm_try") =>
    LET user == Val(Val(upd.message).forward_from) IN
    /\ branch = "user"
    /\ Len(calls) >= 1
    /\ calls[1].api = "reply_text"
    /\ calls[1].parse_mode = "HTML"
    /\ Len(calls[1].text) = 5
    /\ calls[1].text[2] = "|- ID: <code>" \o ToString(user.id) \o "</code>"
    /\ calls[1].text[3] =
         (IF user.username = None THEN "|- Username: @N/A"
          ELSE "|- Username: @" \o user.username[1])
    /\ calls[1].text[4] =
         (IF user.is_bot THEN "|- Bot: :yes: Yes" ELSE "|- Bot: :no: No")
    /\ calls[1].text[5] =
         (IF user.language_code = None THEN "|_ Language: N/A"
          ELSE "|_ Language: " \o user.language_code[1])
    /\ calls[1].reply_markup =
         << <<[text |-> "Refresh",
               callback_data |-> "refresh_user_" \o ToString(user.id)]>>,
            <<[text |-> "Close", callback_data |-> "close"]>> >>
    /\ \A i \in 2..Len(calls) :
         i = 2 /\ ~calls[1].ok /\ calls[i].text = ErrorText

\* C1 witness: a message carrying a user origin together with a chat
\* origin, a sender name and a forward date (user without handle, not a
\* bot, without language) was answered with the user-info reply
C1_Witness ==
  /\ UserOrigin
  /\ Val(upd.message).forward_from_chat # None
  /\ Val(upd.message).forward_sender_name # None
  /\ Val(upd.message).forward_date # None
  /\ Val(Val(upd.message).forward_from).username = None
  /\ ~Val(Val(upd.message).forward_from).is_bot
  /\ Val(Val(upd.message).forward_from).language_code = None
  /\ Finished
  /\ outcome = "returned"
  /\ Len(calls) = 1
  /\ calls[1].text[3] = "|- Username: @N/A"

\* C2 (as claimed): once handle_message is done with a plain message it
\* has returned, never raised; and if anything failed on the way the
\* failure was logged and exactly one generic error reply was sent
C2_FailureNeverPropagates ==
  (IsPlain /\ pc = "idle") =>
    /\ outcome = "returned"
    /\ (logged > 0 \/ \E i \in 1..Len(calls) : ~calls[i].ok) =>
         /\ logged = 1
         /\ Cardinality({i \in Completed : calls[i].text = ErrorText}) = 1

\* C3: for every button press query.answer is the first call issued, and
\* whichever payload branch runs (myid, help, close, unmatched), whether
\* the branch's own action succeeds or fails, the acknowledgement has
\* completed before it
C3_AcknowledgedInEveryBranch ==
  (IsButton /\ pc # "bp_answer") =>
    /\ Len(calls) >= 1
    /\ calls[1].api = "answer"
    /\ (pc = "bp_branch" \/ branch # "none" \/ Len(calls) > 1
          \/ outcome = "returned") => calls[1].ok

\* C3 witness: a press whose branch action failed, acknowledged all the same
C3_Witness ==
  /\ IsButton
  /\ Finished
  /\ outcome = "raised"
  /\ branch = "close"
  /\ calls[1].api = "answer"
  /\ calls[1].ok
  /\ ~calls[2].ok

\* C4 (as claimed): at most one outbound action is issued per update
C4_AtMostOneIssued == Cardinality(Outbound) <= 1

\* C4 (amended): per update at most one outbound action completes, at most
\* two are issued, and two only by handle_message when its reply send
\* raised and the generic error reply followed
C4_AtMostOneCompleted ==
  /\ Cardinality(Completed) <= 1
  /\ Cardinality(Outbound) <= 2
  /\ Cardinality(Outbound) = 2 =>
       /\ IsPlain
       /\ Len(calls) = 2
       /\ ~calls[1].ok
       /\ calls[1].text # ErrorText
       /\ calls[2].api = "reply_text"
       /\ calls[2].text = ErrorText

\* C4 witness: the reply send raised and the error reply went out
C4_Witness ==
  /\ IsPlain
  /\ Finished
  /\ Cardinality(Outbound) = 2
  /\ Cardinality(Completed) = 1
  /\ calls[2].ok

\* C5 (as claimed): a message forwarded from a chat is answered with a
\* chat-info reply: even when the transport fails no call, a reply is
\* issued, it is not the error reply and nothing is logged as an error
C5_ChatInfoReply ==
  (ChatOrigin /\ pc = "idle" /\ \A i \in 1..Len(calls) : calls[i].ok) =>
    /\ Len(calls) >= 1
    /\ calls[1].text # ErrorText
    /\ logged = 0

\* C6 (as claimed): an anonymous forward is answered with a reply showing
\* the sender name: even when the transport fails no call, a reply is
\* issued, it is not the error reply and nothing is logged as an error
C6_AnonymousReply ==
  (AnonymousOrigin /\ pc = "idle" /\ \A i \in 1..Len(calls) : calls[i].ok) =>
    /\ Len(calls) >= 1
    /\ calls[1].text # ErrorText
    /\ logged = 0

\* C7 (as claimed): an acknowledged press of the help button issues the
\* help block of the /help command as a new message
C7_HelpButtonSendsHelpBlock ==
  (IsButton /\ Val(upd.callback_query).data = "help" /\ Finished
     /\ calls[1].ok) =>
    \E i \in 1..Len(calls) :
      /\ calls[i].api = "reply_text"
      /\ calls[i].text = HelpText
      /\ calls[i].parse_mode = "HTML"

\* C8: a forward that resolves to no user, chat or sender name gets no
\* call at all (no reply, no prompt, no error reply, nothing logged) and
\* handle_message returns; and the prompt is issued only for messages
\* without any forward metadata, with its single help button
C8_NoActionOnUnresolvedForward ==
  /\ UnresolvedForward =>
       /\ calls = <<>>
       /\ logged = 0
       /\ pc # "hm_except"
       /\ pc = "idle" => (outcome = "returned" /\ branch = "noop")
  /\ IsPlain =>
       \A i \in 1..Len(calls) :
         (calls[i].text = PromptText \/ branch = "prompt") =>
           /\ NoForwardMetadata
           /\ calls[1].text = PromptText
           /\ calls[1].reply_markup =
                << <<[text |-> "What can I do?", callback_data |-> "help"]>> >>

\* C8 witness: handle_message returned from an unresolved forward
C8_Witness ==
  /\ UnresolvedForward
  /\ Finished
  /\ outcome = "returned"
  /\ calls = <<>>

\* C9: while a close press is handled no message is sent and none is
\* edited; the only calls are the acknowledgement and then the delete of
\* the target message, the delete follows every completed acknowledgement,
\* and a press that returns has been acknowledged and its message deleted
C9_CloseDeletesOnly ==
  (IsButton /\ Val(upd.callback_query).data = "close") =>
    /\ \A i \in 1..Len(calls) :
         /\ calls[i].api \in {"answer", "delete_message"}
         /\ calls[i].api = "delete_message" <=> i = 2
    /\ (pc = "idle" /\ calls[1].ok) =>
         (Len(calls) = 2 /\ calls[2].api = "delete_message")
    /\ (pc = "idle" /\ outcome = "returned") =>
         (Len(calls) = 2 /\ calls[1].ok /\ calls[2].ok)

\* C9 witness: a close press that returned
C9_Witness ==
  /\ IsButton
  /\ Val(upd.callback_query).data = "close"
  /\ Finished
  /\ outcome = "returned"
  /\ calls[2].api = "delete_message"
  /\ calls[2].ok

\* C10 (as claimed): when a transport call fails while a command or a
\* button press is handled, the handler logs it, sends the generic error
\* reply and returns
C10_SendFailureRecovered ==
  ((IsCommand \/ IsButton) /\ pc = "idle"
     /\ \E i \in 1..Len(calls) : ~calls[i].ok) =>
    /\ outcome = "returned"
    /\ logged >= 1
    /\ calls[Len(calls)].text = ErrorText

=============================================================================
